---- MODULE Spec2Model ----
(***************************************************************************)
(* A model of the snippet graph of src/lib.rs and of its renderer (the     *)
(* fmt::Display implementations).  Rc<T> allocations are cells of a heap   *)
(* indexed by handles; an Rc or a Weak is the handle of its cell.  A cell  *)
(* exists for as long as some Rc to it is owned, directly or transitively, *)
(* by the body of the snippet; a Weak whose cell is gone does not upgrade. *)
(* The tab cycle and the edit operations have no code in lib.rs: they are  *)
(* modelled from sections 4.2 and 4.3 of the specification.                *)
(***************************************************************************)
EXTENDS Integers, Sequences, FiniteSets, TLC

VARIABLES
    snippet,   \* the root Snippet: body, tabs, variables, code_expansions, named_segments
    heap,      \* the Rc cells: fields, transformations, variables, codes, snippets
    active,    \* the active tab, an index into snippet.tabs, or 0 for none
    rendered,  \* the results of the renders since the latest edit, oldest first
    op         \* the operation that produced this state, and the text it was given

vars == <<snippet, heap, active, rendered, op>>

\* Bounds of the model.
MaxBody == 2
MaxTabs == 3
MaxRenders == 2

Range(s) == {s[i] : i \in DOMAIN s}

Restrict(f, S) == [x \in (DOMAIN f) \cap S |-> f[x]]

Min(S) == CHOOSE x \in S : \A y \in S : x <= y

---------------------------------------------------------------------------
(* The fragment model: enum Segment, enum Field and the structs.           *)

\* enum Segment: one record per variant; `ref` is the handle of the Rc.
TextSeg(s) == [tag |-> "Text", text |-> s, ref |-> 0]

FieldSeg(h) == [tag |-> "Field", text |-> "", ref |-> h]

TransformationSeg(h) == [tag |-> "Transformation", text |-> "", ref |-> h]

VariableSeg(h) == [tag |-> "Variable", text |-> "", ref |-> h]

CodeSeg(h) == [tag |-> "Code", text |-> "", ref |-> h]

SnippetSeg(h) == [tag |-> "Snippet", text |-> "", ref |-> h]

\* enum Field: Placeholder(child_body) keeps its body as the only entry of
\* `bodies`; Choice(choice, child_body) keeps the index and the options.
Placeholder(child_body) ==
    [kind |-> "Placeholder", choice |-> 0, bodies |-> <<child_body>>]

Choice(choice, child_body) ==
    [kind |-> "Choice", choice |-> choice, bodies |-> child_body]

Transformation(section, format, flags, result) ==
    [section |-> section, format |-> format, flags |-> flags, result |-> result]

Variable(name, value, source) ==
    [name |-> name, value |-> value, source |-> source]

Code(code, output, shebang) ==
    [code |-> code, output |-> output, shebang |-> shebang]

Tab(num, field, transformations) ==
    [num |-> num, field |-> field, transformations |-> transformations]

Expansion(expansion, transformations) ==
    [expansion |-> expansion, transformations |-> transformations]

NamedSegment(kind, name, ref) == [kind |-> kind, name |-> name, ref |-> ref]

Snippet(body, tabs, variables, code_expansions, named_segments) ==
    [body |-> body, tabs |-> tabs, variables |-> variables,
     code_expansions |-> code_expansions, named_segments |-> named_segments]

---------------------------------------------------------------------------
(* Ownership: the cells an Rc keeps alive.                                 *)

RECURSIVE Owned(_, _)
\* The cells owned, directly or through fields and nested snippets, by the
\* segments of `segs`, as <<tag, handle>> pairs.
Owned(h, segs) ==
    UNION { {<<s.tag, s.ref>>} \cup
            (IF s.tag = "Field"
               THEN UNION {Owned(h, b) : b \in Range(h.fields[s.ref].bodies)}
             ELSE IF s.tag = "Snippet"
               THEN Owned(h, h.snippets[s.ref].body)
             ELSE {})
          : s \in {x \in Range(segs) : x.tag # "Text"} }

Handles(own, tag) == {p[2] : p \in {q \in own : q[1] = tag}}

\* Dropping every cell no Rc refers to any more.
Collect(h, body) ==
    LET own == Owned(h, body)
    IN  [fields          |-> Restrict(h.fields, Handles(own, "Field")),
         transformations |-> Restrict(h.transformations, Handles(own, "Transformation")),
         variables       |-> Restrict(h.variables, Handles(own, "Variable")),
         codes           |-> Restrict(h.codes, Handles(own, "Code")),
         snippets        |-> Restrict(h.snippets, Handles(own, "Snippet"))]

\* Weak::upgrade succeeds exactly when the cell is still there.
Upgrades(cells, ref) == ref \in DOMAIN cells

---------------------------------------------------------------------------
(* The renderer: impl fmt::Display.  A fmt call returns Ok or Err and has  *)
(* written `text` to the formatter by then; the formatter writes into a    *)
(* String, which accepts every write.                                      *)

RECURSIVE FmtSegment(_, _), FmtField(_, _), FmtSnippet(_, _), WriteSegments(_, _)

\* write!(f, "{}", s) of a string into the formatter.
WriteStr(s) == [ok |-> TRUE, text |-> s]

\* FmtVariable with an unresolved variable reported as fmt::Error.
FmtVariableStrict(variable) ==
    IF variable.value = "" THEN [ok |-> FALSE, text |-> ""]
    ELSE WriteStr(variable.value)

FmtVariable(variable) == WriteStr(variable.value)

FmtCode(code) == WriteStr(code.output)

FmtTransformation(transformation) == WriteStr(transformation.result)

\* while let Some(seg) = body.next() { write!(f, "{}", seg)?; } Ok(())
WriteSegments(h, body) ==
    IF body = <<>> THEN [ok |-> TRUE, text |-> ""]
    ELSE LET seg == FmtSegment(h, Head(body))
         IN  IF ~seg.ok THEN seg
             ELSE LET rest == WriteSegments(h, Tail(body))
                  IN  [ok |-> rest.ok, text |-> seg.text \o rest.text]

FmtSegment(h, seg) ==
    CASE seg.tag = "Text" -> WriteStr(seg.text)
      [] seg.tag = "Variable" -> FmtVariable(h.variables[seg.ref])
      [] seg.tag = "Code" -> FmtCode(h.codes[seg.ref])
      [] seg.tag = "Snippet" -> FmtSnippet(h, h.snippets[seg.ref])
      [] seg.tag = "Field" -> FmtField(h, h.fields[seg.ref])
      [] seg.tag = "Transformation" -> FmtTransformation(h.transformations[seg.ref])

\* Vec::get with a usize index: indices count from 0.
Get(child_body, choice) ==
    IF choice + 1 \in DOMAIN child_body THEN <<child_body[choice + 1]>> ELSE <<>>

\* FmtField with the index of the Choice counted from 1.
FmtFieldOneBased(h, field) ==
    IF field.kind = "Placeholder" THEN WriteSegments(h, field.bodies[1])
    ELSE IF field.choice \in DOMAIN field.bodies
           THEN WriteSegments(h, field.bodies[field.choice])
         ELSE [ok |-> TRUE, text |-> ""]

\* FmtField with child_body[*choice] in place of child_body.get(*choice):
\* an index out of range fails.
FmtFieldIndexing(h, field) ==
    IF field.kind = "Placeholder" THEN WriteSegments(h, field.bodies[1])
    ELSE LET got == Get(field.bodies, field.choice)
         IN  IF got # <<>> THEN WriteSegments(h, got[1])
             ELSE [ok |-> FALSE, text |-> ""]

FmtField(h, field) ==
    IF field.kind = "Placeholder" THEN WriteSegments(h, field.bodies[1])
    ELSE LET got == Get(field.bodies, field.choice)
         IN  IF got # <<>> THEN WriteSegments(h, got[1])
             ELSE [ok |-> TRUE, text |-> ""]

\* FmtSnippet that renders nothing until the snippet has tabs.
FmtSnippetTabs(h, s) ==
    IF s.tabs = <<>> THEN [ok |-> TRUE, text |-> ""] ELSE WriteSegments(h, s.body)

FmtSnippet(h, s) == WriteSegments(h, s.body)

---------------------------------------------------------------------------
(* Construction.  lib.rs has no constructor: a Snippet is built, as in     *)
(* tests::construct_snippet, by a struct literal, which accepts every      *)
(* value of the field types.  The graphs below are the literals the model  *)
(* considers.                                                              *)

NoTransformations == <<>>

\* The options of the test's Choice.
Greetings == <<<<TextSeg("Hi")>>, <<TextSeg("Hello")>>, <<TextSeg("Howdee")>>>>

OptionLists == {<<>>, Greetings}

\* A usize index: every valid index of Greetings and the first invalid one.
ChoiceIndices == 0 .. Len(Greetings)

Values == {"", "me"}

Outputs == {"", "now"}

Results == {"", "John"}

\* The Rc cells a literal may allocate.  Field 1 is the greeting Choice,
\* field 2 the name Placeholder, field 3 a Placeholder around field 1; the
\* nested snippet shares field 2.
Cells(choice, options, value, output, result) ==
    [fields |-> (1 :> Choice(choice, options))
                @@ (2 :> Placeholder(<<TextSeg("John")>>))
                @@ (3 :> Placeholder(<<TextSeg("("), FieldSeg(1), TextSeg(")")>>)),
     transformations |-> (1 :> Transformation("Jane", "JANE", "", result)),
     variables |-> (1 :> Variable("USER", value, "Daemon")),
     codes |-> (1 :> Code("date", output, "/bin/sh")),
     snippets |-> (1 :> Snippet(<<FieldSeg(2), TextSeg("!"), CodeSeg(1)>>,
                                <<>>, <<>>, <<>>, <<>>))]

SegmentPool ==
    {TextSeg(" there "), FieldSeg(1), FieldSeg(2), FieldSeg(3),
     TransformationSeg(1), VariableSeg(1), CodeSeg(1), SnippetSeg(1)}

\* The body of tests::construct_snippet.
TestBody == <<FieldSeg(1), TextSeg(" there "), FieldSeg(2)>>

\* A body that holds field 2 twice, and the transformation of field 2.
MirrorBody == <<FieldSeg(2), TransformationSeg(1), FieldSeg(2)>>

\* A body with text before the Choice and a field after it.
InnerChoiceBody == <<TextSeg(" there "), FieldSeg(1), FieldSeg(2)>>

\* A body that starts with the program-filled segments.
ExpansionBody == <<VariableSeg(1), CodeSeg(1), FieldSeg(2)>>

\* Every body of at most MaxBody segments, and the four bodies above.
Bodies ==
    UNION {[1 .. n -> SegmentPool] : n \in 0 .. MaxBody}
      \cup {TestBody, MirrorBody, InnerChoiceBody, ExpansionBody}

\* The bodies that are given tabs.
TabBodies == {TestBody, MirrorBody}

TabNums == {1, 2, 3}

\* A tab is wired to field 2 and its transformation, or to field 1.
TabPool ==
    {Tab(n, 2, <<1>>) : n \in TabNums} \cup
    {Tab(n, 1, NoTransformations) : n \in TabNums}

TabLists == UNION {[1 .. n -> TabPool] : n \in 0 .. MaxTabs}

NoIndex == [variables |-> <<>>, code_expansions |-> <<>>, named_segments |-> <<>>]

\* The index lists of a literal: empty, as in the test, or one entry each.
IndexLists ==
    {NoIndex,
     [variables |-> <<Expansion(1, <<1>>)>>,
      code_expansions |-> <<Expansion(1, NoTransformations)>>,
      named_segments |-> <<NamedSegment("Code", "now", 1)>>]}

\* Snippet { body, tabs, variables, code_expansions, named_segments }: the
\* temporaries of the literal are dropped, the body keeps its cells.
Construct(body, tabs, index, cells) ==
    /\ snippet = Snippet(body, tabs, index.variables, index.code_expansions,
                         index.named_segments)
    /\ heap = Collect(cells, body)
    /\ active = 0
    /\ rendered = <<>>
    /\ op = [name |-> "construct", text |-> ""]

Init ==
    \E body \in Bodies :
      \E tabs \in (IF body \in TabBodies THEN TabLists ELSE {<<>>}) :
        \E index \in (IF tabs = <<>> THEN IndexLists ELSE {NoIndex}) :
          \E choice \in ChoiceIndices, result \in Results :
            \E options \in (IF tabs = <<>> THEN OptionLists ELSE {Greetings}) :
              \E value \in (IF tabs = <<>> THEN Values ELSE {""}) :
                \E output \in (IF tabs = <<>> THEN Outputs ELSE {""}) :
                  Construct(body, tabs, index,
                            Cells(choice, options, value, output, result))

---------------------------------------------------------------------------
(* Rendering: to_string() / println!("{}", snippet).                       *)

\* Render that drains the body it has written.
RenderDraining ==
    /\ Len(rendered) < MaxRenders
    /\ rendered' = Append(rendered, FmtSnippet(heap, snippet))
    /\ snippet' = [snippet EXCEPT !.body = <<>>]
    /\ op' = [name |-> "render", text |-> ""]
    /\ UNCHANGED <<heap, active>>

Render ==
    /\ Len(rendered) < MaxRenders
    /\ rendered' = Append(rendered, FmtSnippet(heap, snippet))
    /\ op' = [name |-> "render", text |-> ""]
    /\ UNCHANGED <<snippet, heap, active>>

---------------------------------------------------------------------------
(* The tab cycle and the edits of specification 4.2, with the propagation  *)
(* of 4.3.                                                                 *)

\* derive: the pattern replaced by the template where it matches, the
\* source passed through where it does not.  The pattern is a literal that
\* has to match the whole source.
Derive(transformation, source_text) ==
    IF source_text = transformation.section THEN transformation.format
    ELSE source_text

\* The transformations of one tab re-derived from the tab's field.
Rederive(h, tab) ==
    IF ~Upgrades(h.fields, tab.field) THEN h
    ELSE LET source_text == FmtField(h, h.fields[tab.field]).text
             old == h.transformations
         IN  [h EXCEPT !.transformations =
                 [t \in DOMAIN old |->
                     IF t \in Range(tab.transformations)
                       THEN [old[t] EXCEPT !.result = Derive(old[t], source_text)]
                       ELSE old[t]]]

RECURSIVE Propagate(_, _)
Propagate(h, tabs) ==
    IF tabs = <<>> THEN h ELSE Propagate(Rederive(h, Head(tabs)), Tail(tabs))

Nums(tabs) == {tabs[i].num : i \in DOMAIN tabs}

\* The first tab stored with this num.
TabIndex(tabs, num) == Min({i \in DOMAIN tabs : tabs[i].num = num})

\* NextTab in the order the tabs are stored.
NextTabStored(tabs, current) ==
    IF tabs = <<>> THEN 0 ELSE (current % Len(tabs)) + 1

\* The tab after `current`: none when there are no tabs, the lowest num
\* from none, else the lowest num above the current one, else the lowest.
NextTab(tabs, current) ==
    IF tabs = <<>> THEN 0
    ELSE IF current = 0 THEN TabIndex(tabs, Min(Nums(tabs)))
    ELSE LET above == {n \in Nums(tabs) : n > tabs[current].num}
         IN  IF above # {} THEN TabIndex(tabs, Min(above))
             ELSE TabIndex(tabs, Min(Nums(tabs)))

TabNext ==
    /\ active' = NextTab(snippet.tabs, active)
    /\ op' = [name |-> "next", text |-> ""]
    /\ UNCHANGED <<snippet, heap, rendered>>

EditTexts == {"Jane", ""}

\* Edit that writes a private copy of the field and leaves the shared cell.
EditDetached(new_text) ==
    /\ active # 0
    /\ Upgrades(heap.fields, snippet.tabs[active].field)
    /\ heap.fields[snippet.tabs[active].field].kind = "Placeholder"
    /\ rendered' = <<>>
    /\ op' = [name |-> "edit", text |-> new_text]
    /\ UNCHANGED <<snippet, heap, active>>

\* edit(active_tab, new_text): the text replaces the body of the field.
Edit(new_text) ==
    /\ active # 0
    /\ LET tab == snippet.tabs[active]
       IN  /\ Upgrades(heap.fields, tab.field)
           /\ heap.fields[tab.field].kind = "Placeholder"
           /\ heap' = Propagate(
                  Collect([heap EXCEPT !.fields[tab.field] =
                              Placeholder(<<TextSeg(new_text)>>)],
                          snippet.body),
                  snippet.tabs)
    /\ rendered' = <<>>
    /\ op' = [name |-> "edit", text |-> new_text]
    /\ UNCHANGED <<snippet, active>>

\* select_choice(active_tab, index).
SelectChoice(index) ==
    /\ active # 0
    /\ LET tab == snippet.tabs[active]
       IN  /\ Upgrades(heap.fields, tab.field)
           /\ heap.fields[tab.field].kind = "Choice"
           /\ heap' = Propagate([heap EXCEPT !.fields[tab.field].choice = index],
                                snippet.tabs)
    /\ rendered' = <<>>
    /\ op' = [name |-> "select_choice", text |-> ""]
    /\ UNCHANGED <<snippet, active>>

Next ==
    \/ Render
    \/ TabNext
    \/ \E new_text \in EditTexts : Edit(new_text)
    \/ \E index \in ChoiceIndices : SelectChoice(index)

Spec == Init /\ [][Next]_vars

---------------------------------------------------------------------------
(* The properties.                                                         *)

RECURSIVE SegmentText(_, _), BodyText(_, _)
\* The text of a body as specification 4.5 states it: the texts of its
\* segments, left to right.
BodyText(h, body) ==
    IF body = <<>> THEN ""
    ELSE SegmentText(h, Head(body)) \o BodyText(h, Tail(body))

SegmentText(h, seg) ==
    CASE seg.tag = "Text" -> seg.text
      [] seg.tag = "Field" ->
            LET field == h.fields[seg.ref]
            IN  IF field.kind = "Placeholder" THEN BodyText(h, field.bodies[1])
                ELSE IF field.choice < Len(field.bodies)
                       THEN BodyText(h, field.bodies[field.choice + 1])
                     ELSE ""
      [] seg.tag = "Transformation" -> h.transformations[seg.ref].result
      [] seg.tag = "Variable" -> h.variables[seg.ref].value
      [] seg.tag = "Code" -> h.codes[seg.ref].output
      [] seg.tag = "Snippet" -> BodyText(h, h.snippets[seg.ref].body)

\* The text of a body without its segment i.
TextAround(h, body, i) ==
    BodyText(h, SubSeq(body, 1, i - 1)) \o BodyText(h, SubSeq(body, i + 1, Len(body)))

\* The graph of tests::construct_snippet.
TestGraph ==
    /\ snippet.body = TestBody
    /\ heap.fields[1] = Choice(1, Greetings)
    /\ heap.fields[2] = Placeholder(<<TextSeg("John")>>)

\* C1: every render of a snippet returns the concatenation, left to right,
\* of the texts of its body's segments (Text its literal, Field its active
\* body, Transformation its result, Variable its value, Code its output,
\* a nested Snippet the text of its own body); the test's snippet renders
\* to "Hello there John".
RenderIsFoldOfBody ==
    /\ \A k \in DOMAIN rendered :
          rendered[k] = [ok |-> TRUE, text |-> BodyText(heap, snippet.body)]
    /\ (TestGraph /\ rendered # <<>>) => rendered[1].text = "Hello there John"

RenderedTestSnippet ==
    /\ TestGraph
    /\ rendered # <<>>
    /\ rendered[1].text = "Hello there John"

OutOfRange(field) == field.kind = "Choice" /\ ~(field.choice < Len(field.bodies))

\* Every body of the graph: the snippet's, the fields' and the nested snippets'.
LiveBodies ==
    {snippet.body}
      \cup UNION {Range(heap.fields[f].bodies) : f \in DOMAIN heap.fields}
      \cup {heap.snippets[n].body : n \in DOMAIN heap.snippets}

\* C2: a Choice whose index is out of range (its options may be empty)
\* renders as empty text and succeeds, and the body that holds it renders as
\* the segments before it followed by the segments after it.
OutOfRangeChoiceIsEmpty ==
    \A body \in LiveBodies : \A i \in DOMAIN body :
        (body[i].tag = "Field" /\ OutOfRange(heap.fields[body[i].ref])) =>
            LET rest == [ok |-> TRUE, text |-> TextAround(heap, body, i)]
            IN  /\ FmtField(heap, heap.fields[body[i].ref]) = [ok |-> TRUE, text |-> ""]
                /\ WriteSegments(heap, body) = rest
                /\ body = snippet.body => \A k \in DOMAIN rendered : rendered[k] = rest

RenderedAroundEmptyChoice ==
    /\ snippet.body = InnerChoiceBody
    /\ heap.fields[1].bodies = <<>>
    /\ rendered # <<>>
    /\ rendered[1] = [ok |-> TRUE, text |-> " there John"]

\* C3: a render leaves the graph and the active tab as they were, and
\* renders with no edit between them return the same text.
RenderIsPure ==
    [][op'.name = "render" =>
          /\ snippet' = snippet
          /\ heap' = heap
          /\ active' = active
          /\ \A k \in DOMAIN rendered : rendered[k] = rendered'[Len(rendered')]]_vars

RenderedTwice ==
    /\ Len(rendered) >= 2
    /\ rendered[1].text # ""
    /\ active # 0
    /\ \E f \in DOMAIN heap.fields : heap.fields[f].kind = "Choice"

\* C4: in every state, the result of each transformation a tab lists is
\* the derivation of the current text of the tab's field.
NoStaleResult ==
    \A i \in DOMAIN snippet.tabs :
        LET tab == snippet.tabs[i]
        IN  Upgrades(heap.fields, tab.field) =>
              \A t \in Range(tab.transformations) :
                  Upgrades(heap.transformations, t) =>
                      heap.transformations[t].result =
                          Derive(heap.transformations[t],
                                 FmtField(heap, heap.fields[tab.field]).text)

\* C5: after an edit through the active tab, the new text is what renders
\* through every tab wired to the same field and at every position of the
\* body that holds the field.
MirrorsObserveEdit ==
    [][op'.name = "edit" =>
          LET field == snippet.tabs[active].field
          IN  /\ \A j \in DOMAIN snippet.tabs :
                    snippet.tabs[j].field = field =>
                        /\ Upgrades(heap'.fields, snippet.tabs[j].field)
                        /\ FmtField(heap', heap'.fields[snippet.tabs[j].field])
                             = [ok |-> TRUE, text |-> op'.text]
              /\ \A i \in DOMAIN snippet.body :
                    snippet.body[i] = FieldSeg(field) =>
                        FmtSegment(heap', snippet.body[i])
                          = [ok |-> TRUE, text |-> op'.text]]_vars

EditedThroughMirror ==
    /\ op = [name |-> "edit", text |-> "Jane"]
    /\ snippet.body = MirrorBody
    /\ \E j, k \in DOMAIN snippet.tabs :
          j # k /\ active = j /\ snippet.tabs[j].field = 2 /\ snippet.tabs[k].field = 2
    /\ FmtField(heap, heap.fields[2]).text = "Jane"

StoredNums == [i \in DOMAIN snippet.tabs |-> snippet.tabs[i].num]

\* C6: next() makes active the tab with the lowest num above the current
\* one, the lowest num of all after the highest or from no active tab, in
\* whatever order the tabs are stored; tabs stored as 1, 3, 2 are visited
\* as 1, 2, 3, 1; with no tabs nothing changes and no tab is active.
NextFollowsAscendingNum ==
    [][op'.name = "next" =>
          LET tabs == snippet.tabs
              nums == Range(StoredNums)
              above == IF active = 0 THEN {} ELSE {n \in nums : n > tabs[active].num}
          IN  /\ snippet' = snippet /\ heap' = heap
              /\ IF tabs = <<>> THEN active' = 0
                 ELSE /\ active' \in DOMAIN tabs
                      /\ \A n \in nums :
                            (IF above # {} THEN n \in above ELSE TRUE) =>
                                tabs[active'].num <= n
                      /\ above # {} => tabs[active'].num \in above
              /\ StoredNums = <<1, 3, 2>> =>
                    active' = CASE active = 0 -> 1
                                [] active = 1 -> 3
                                [] active = 3 -> 2
                                [] active = 2 -> 1]_vars

CycledToHighest ==
    /\ op.name = "next"
    /\ StoredNums = <<1, 3, 2>>
    /\ active = 2

\* C7: the nums of the tabs of a snippet are pairwise distinct.
TabNumsUnique ==
    \A i, j \in DOMAIN snippet.tabs :
        i # j => snippet.tabs[i].num # snippet.tabs[j].num

\* Fragments that have nothing to show.
Degraded(h, seg) ==
    \/ seg.tag = "Variable" /\ h.variables[seg.ref].value = ""
    \/ seg.tag = "Code" /\ h.codes[seg.ref].output = ""
    \/ seg.tag = "Field" /\ OutOfRange(h.fields[seg.ref])

\* C8: a render succeeds in every state, and a Variable without value, a
\* Code without output or a Choice out of range contributes empty text
\* and leaves the rest of the body rendered.
RenderNeverFails ==
    /\ FmtSnippet(heap, snippet).ok
    /\ \A k \in DOMAIN rendered :
          /\ rendered[k].ok
          /\ \A i \in DOMAIN snippet.body :
                Degraded(heap, snippet.body[i]) =>
                    rendered[k].text = TextAround(heap, snippet.body, i)

RenderedPastUnresolved ==
    /\ snippet.body = ExpansionBody
    /\ heap.variables[1].value = ""
    /\ heap.codes[1].output = ""
    /\ rendered # <<>>
    /\ rendered[1] = [ok |-> TRUE, text |-> "John"]

\* C9: every reference of the tabs, the expansions and the named segments
\* upgrades to a cell the body owns.
ReferencesResolve ==
    /\ \A i \in DOMAIN snippet.tabs :
          /\ Upgrades(heap.fields, snippet.tabs[i].field)
          /\ \A t \in Range(snippet.tabs[i].transformations) :
                Upgrades(heap.transformations, t)
    /\ \A i \in DOMAIN snippet.variables :
          /\ Upgrades(heap.variables, snippet.variables[i].expansion)
          /\ \A t \in Range(snippet.variables[i].transformations) :
                Upgrades(heap.transformations, t)
    /\ \A i \in DOMAIN snippet.code_expansions :
          /\ Upgrades(heap.codes, snippet.code_expansions[i].expansion)
          /\ \A t \in Range(snippet.code_expansions[i].transformations) :
                Upgrades(heap.transformations, t)
    /\ \A i \in DOMAIN snippet.named_segments :
          IF snippet.named_segments[i].kind = "Code"
            THEN Upgrades(heap.codes, snippet.named_segments[i].ref)
            ELSE Upgrades(heap.transformations, snippet.named_segments[i].ref)

\* Tab lists to compare with: none, one tab, two tabs with the same num.
AlternativeTabs ==
    {<<>>, <<Tab(1, 2, <<1>>)>>, <<Tab(1, 1, NoTransformations), Tab(1, 3, <<1>>)>>}

\* C10: the text of a snippet depends on its body alone: a snippet with
\* the same body and other tabs, variables, code_expansions and
\* named_segments renders to the same text, and so does the snippet itself
\* whichever tab has become active since.
RenderReadsBodyOnly ==
    \A tabs \in AlternativeTabs, index \in IndexLists :
        LET other == Snippet(snippet.body, tabs, index.variables,
                             index.code_expansions, index.named_segments)
        IN  /\ FmtSnippet(heap, other) = FmtSnippet(heap, snippet)
            /\ \A k \in DOMAIN rendered : rendered[k] = FmtSnippet(heap, other)

RenderedWithDanglingTab ==
    /\ rendered # <<>>
    /\ rendered[1].text # ""
    /\ active # 0
    /\ \E i \in DOMAIN snippet.tabs : ~Upgrades(heap.fields, snippet.tabs[i].field)

====
